---- MODULE Spec2Model ----
\* MicroAlloc (src/mm.c): a segregated-free-list allocator over one heap
\* grown with sbrk.  The model is at the level of the machine words the
\* code reads and writes: block headers, footers and the next/prev links
\* of free blocks all live in `mem`, so stale headers, aliasing fields and
\* garbage flag bits behave as they do in the C program.
\*
\* Build modelled: LP64, sizeof(size_t) = sizeof(void pointer) = 8.  size_t
\* and pointer arithmetic is modular; TLC's integers are 32 bit, so the word
\* is modelled WordBits wide instead of 64 (all arithmetic % 2^WordBits).
EXTENDS Integers, Sequences, FiniteSets, Bags, TLC

\* ------------------------------------------------------------------ bounds
\* width of size_t / uintptr_t in the model
WordBits == 24
\* the OS refuses to grow the managed region beyond this many 8-byte words
MaxHeapWords == 24
\* the OS refuses a further free-list table once this many were handed out
MaxTables == 1
\* number of public calls in a run
MaxCalls == 5

\* --------------------------------------------------------- program constants
WSIZE == 8
LISTCOUNT == 75
MAXSMALL == 504
ENOMEM == 12
NULL == 0

DSIZE == 2 * WSIZE
ALIGNMENT == DSIZE
\* sizeof(Block): size, next, prev
SizeofBlock == 3 * WSIZE
MINBLOCK == SizeofBlock + WSIZE

M == 2 ^ WordBits
SIZE_MAX == M - 1

\* size_t / pointer arithmetic
Add(a, b) == (a + b) % M
Sub(a, b) == (a - b + M) % M

\* x & ~0x7, x & 0x7, x & 0x3, x & 0x1, x & 0x2
AndNot7(x) == x - (x % 8)
And7(x) == x % 8
And3(x) == x % 4
And1(x) == x % 2
And2(x) == 2 * ((x \div 2) % 2)
\* bitwise or of a word with a value whose bits lie in 0..2^WordBits-1
RECURSIVE BitOr(_, _)
BitOr(a, b) ==
    IF a = 0 THEN b
    ELSE IF b = 0 THEN a
    ELSE 2 * BitOr(a \div 2, b \div 2) + (IF a % 2 = 1 \/ b % 2 = 1 THEN 1 ELSE 0)

\* #define ALIGN(size) (((size) + (ALIGNMENT-1)) & ~0x7)
ALIGN(size) == AndNot7(Add(size, ALIGNMENT - 1))
\* #define BLOCKSIZE(u) (u + DSIZE)
BLOCKSIZE(u) == Add(u, DSIZE)

\* ------------------------------------------------------------------- state
VARIABLES
    mem,         \* the non-zero words of [prologue, brk): address |-> word
    free_lists,  \* the non-null heads of the table: list index |-> head
    prologue,    \* address of the prologue header
    epilogue,    \* address of the epilogue header
    brk,         \* the program break
    init,        \* malloc_init's static flag
    errno,       \* the process-global error indicator
    fault,       \* "none", or how the process left defined behaviour
    live,        \* bag of <<pointer, requested size>> the caller holds
    call,        \* the last public call: operation, arguments, result
    lifo,        \* <<p, n>> after p = malloc(n); free(p), and <<p, n, q>> after
                 \* the q = malloc(n) that follows them
    ncalls       \* number of public calls made

vars == <<mem, free_lists, prologue, epilogue, brk, init, errno, fault, live, call,
          lifo, ncalls>>

\* number of addressable words of the model's memory: the sentinels and the
\* slack malloc_init requests (at most 5 words), plus the managed region
MemWords == MaxHeapWords + 5

\* The allocator's globals and memory as one value h, threaded through the
\* functions below in program order.
\*   h.ub   : an access outside [prologue, brk), a null dereference or an
\*            out-of-range index into free_lists happened
\*   h.hang : a loop did not finish
\*   h.quota: how many more sbrk requests the OS grants during this call
Cur ==
    [mem |-> mem, fl |-> free_lists, pro |-> prologue, epi |-> epilogue,
     brk |-> brk, init |-> init, errno |-> errno, ub |-> FALSE, hang |-> FALSE,
     quota |-> 0]

Valid(h, a) ==
    /\ a >= h.pro
    /\ a + WSIZE <= h.brk
    /\ (a - h.pro) % WSIZE = 0
    /\ (a - h.pro) \div WSIZE < MemWords

\* a table f with f[a] set to v; entries that are 0 are left out
Put(f, a, v) ==
    IF v = 0 THEN [x \in DOMAIN f \ {a} |-> f[x]]
    ELSE [x \in DOMAIN f \cup {a} |-> IF x = a THEN v ELSE f[x]]
Norm(f) == [x \in {y \in DOMAIN f : f[y] # 0} |-> f[x]]

\* read of the word at address a (0 when the access is not defined)
Rd(h, a) == IF Valid(h, a) /\ a \in DOMAIN h.mem THEN h.mem[a] ELSE 0
\* the access itself: flags an undefined read
Touch(h, a) == IF Valid(h, a) THEN h ELSE [h EXCEPT !.ub = TRUE]
\* write of the word at address a
Wr(h, a, v) ==
    IF Valid(h, a) THEN [h EXCEPT !.mem = Put(h.mem, a, v)]
    ELSE [h EXCEPT !.ub = TRUE]

\* free_lists[i]
FL(h, i) == IF i \in DOMAIN h.fl THEN h.fl[i] ELSE NULL
TouchFL(h, i) == IF i \in 0..(LISTCOUNT - 1) THEN h ELSE [h EXCEPT !.ub = TRUE]
SetFL(h, i, v) ==
    IF i \in 0..(LISTCOUNT - 1) THEN [h EXCEPT !.fl = Put(h.fl, i, v)]
    ELSE [h EXCEPT !.ub = TRUE]

\* field addresses of struct block
NextField(b) == Add(b, WSIZE)
PrevField(b) == Add(b, 2 * WSIZE)

\* --------------------------------------------------------- header macros
USERTOBLOCK(u) == Sub(u, WSIZE)
BLOCKTOUSER(b) == Add(b, WSIZE)
SIZE(h, b) == AndNot7(Rd(h, b))
USERSIZE(h, b) == Sub(SIZE(h, b), DSIZE)
ISALLOC(h, b) == And1(Rd(h, b))
\* the value transformations of MARKALLOC, MARKFREE, MARKUNQUICK
MarkAllocV(x) == BitOr(x - And2(x), 1)
MarkFreeV(x) == x - And1(x)
MarkUnquickV(x) == x - And2(x)
MARKALLOC(h, b) == Wr(h, b, MarkAllocV(Rd(h, b)))
MARKFREE(h, b) == Wr(h, b, MarkFreeV(Rd(h, b)))
MARKUNQUICK(h, b) == Wr(h, b, MarkUnquickV(Rd(h, b)))
SETSIZEHDR(h, b, s) == Wr(h, b, BitOr(And7(Rd(h, b)), s))
BOUNDINIT(h, b) == SETSIZEHDR(MARKALLOC(h, b), b, 0)
GETFTR(h, b) == Sub(Add(b, SIZE(h, b)), WSIZE)
HDRTOFTR(h, b) == Wr(Touch(h, b), GETFTR(h, b), Rd(h, b))
SETSIZE(h, b, s) == LET h1 == SETSIZEHDR(h, b, s) IN HDRTOFTR(h1, b)
PREVFTR(b) == Sub(b, WSIZE)
PREVRAW(h, b) == Sub(b, SIZE(h, PREVFTR(b)))
PREVUNCOAL(h, b) == And3(Rd(h, PREVFTR(b)))
NEXTRAW(h, b) == Add(b, SIZE(h, b))
NEXTUNCOAL(h, b) == And3(Rd(h, NEXTRAW(h, b)))

\* ------------------------------------------------------- find_list_index
\* the while loop: l counts the bits of s
RECURSIVE BitLen(_)
BitLen(s) == IF s = 0 THEN 0 ELSE 1 + BitLen(s \div 2)

\* find_list_index with s >>= 11 in place of s >>= 10
find_list_index_shifted(s) ==
    IF s < 512 THEN (s \div 8) - 1
    ELSE LET l == BitLen(s \div 2048) IN IF l < 12 THEN 63 + l ELSE LISTCOUNT - 1

find_list_index(s) ==
    IF s < 512 THEN (s \div 8) - 1
    ELSE LET l == BitLen(s \div 1024)
         IN IF l < 12 THEN 63 + l ELSE LISTCOUNT - 1

\* ------------------------------------------------------------------ the OS
\* the values the program break may have when the allocator is first used
BrkChoices == {4096, 4099}
InitBrkLimit == 4099 + MaxTables * (WSIZE * LISTCOUNT) + 56

\* sbrk(n), n > 0.  The OS grants the request while the call's quota lasts and
\* the limit is not passed: before initialisation the break may not pass
\* InitBrkLimit, afterwards the managed region may not pass MaxHeapWords words.
\* n is taken as the unsigned byte count the code means.
OSGrants(h, n) ==
    /\ h.quota > 0
    /\ n > 0
    /\ IF h.init = 0 THEN h.brk + n <= InitBrkLimit
       ELSE (h.epi - (h.pro + WSIZE)) + n <= WSIZE * MaxHeapWords

\* r is the previous break, or -1
sbrk(h, n) ==
    IF n = 0 THEN [h |-> h, r |-> h.brk]
    ELSE IF OSGrants(h, n)
    THEN [h |-> [h EXCEPT !.brk = h.brk + n, !.quota = h.quota - 1], r |-> h.brk]
    ELSE [h |-> h, r |-> -1]

\* ------------------------------------------------------------- malloc_init
\* Each function is a chain of definitions, one per stretch of its body; the
\* state reached so far is handed on as the first parameter.

\* prologue and epilogue are placed and initialised; init = 1
malloc_init_sentinels(h, old_brk, pad_bytes) ==
    LET pro == Add(old_brk, pad_bytes)
        epi == Add(pro, WSIZE)
    IN [h |-> [BOUNDINIT(BOUNDINIT([h EXCEPT !.pro = pro, !.epi = epi], pro), epi)
                 EXCEPT !.init = 1],
        r |-> 0]

\* if (sbrk(req_bytes) == (void *) -1)
malloc_init_chunk(s, old_brk, pad_bytes) ==
    IF s.r = -1 THEN [h |-> [s.h EXCEPT !.errno = ENOMEM], r |-> -1]
    ELSE malloc_init_sentinels(s.h, old_brk, pad_bytes)

\* old_brk = sbrk(0); pad_bytes; req_bytes
malloc_init_pad(h, old_brk, pad_bytes) ==
    malloc_init_chunk(sbrk(h, ALIGN(Add(Add(pad_bytes, WSIZE), SizeofBlock))),
                      old_brk, pad_bytes)

\* if ((free_lists = sbrk(...)) == (void *) -1), then the memset
malloc_init_table(s) ==
    IF s.r = -1 THEN [h |-> [s.h EXCEPT !.errno = ENOMEM], r |-> -1]
    ELSE malloc_init_pad([s.h EXCEPT !.fl = <<>>], s.h.brk,
                         Sub(ALIGN(s.h.brk), s.h.brk))

malloc_init(h) ==
    IF h.init > 0 THEN [h |-> h, r |-> 0]
    ELSE malloc_init_table(sbrk(h, WSIZE * LISTCOUNT))

\* ---------------------------------------------------------- free lists
\* the linking of new_block at *head
free_list_insert_link(h, new_block, idx, head) ==
    IF head = NULL
    THEN Wr(Wr(SetFL(h, idx, new_block), NextField(new_block), NULL),
            PrevField(new_block), NULL)
    ELSE Wr(SetFL(Wr(Wr(h, NextField(new_block), head),
                     PrevField(head), new_block),
                  idx, new_block),
            PrevField(new_block), NULL)

\* after MARKFREE, MARKUNQUICK, HDRTOFTR: *head is read
free_list_insert_head(h, new_block, idx) ==
    free_list_insert_link(h, new_block, idx, FL(h, idx))

\* head = &free_lists[idx]
free_list_insert_at(h, new_block, idx) ==
    free_list_insert_head(
        HDRTOFTR(MARKUNQUICK(MARKFREE(TouchFL(Touch(h, new_block), idx),
                                      new_block),
                             new_block),
                 new_block),
        new_block, idx)

free_list_insert(h, new_block, unsorted) ==
    free_list_insert_at(h, new_block,
                        IF unsorted THEN 0 ELSE find_list_index(SIZE(h, new_block)))

\* MARKALLOC(b); HDRTOFTR(b);
free_list_remove_mark(h, b) == HDRTOFTR(MARKALLOC(h, b), b)

\* if (b->next != NULL) b->next->prev = b->prev;
free_list_remove_next(h, b) ==
    free_list_remove_mark(
        IF Rd(h, NextField(b)) # NULL
        THEN Wr(Touch(h, PrevField(b)),
                PrevField(Rd(h, NextField(b))), Rd(h, PrevField(b)))
        ELSE Touch(h, NextField(b)),
        b)

\* if (*head != NULL) (*head)->prev = NULL;
free_list_remove_newhead(h, hd) ==
    IF FL(h, hd) # NULL THEN Wr(h, PrevField(FL(h, hd)), NULL) ELSE h

\* the head is updated, or b->prev->next = b->next
free_list_remove_at(h, b, sidx) ==
    free_list_remove_next(
        IF b = FL(h, sidx) \/ b = FL(h, 0)
        THEN free_list_remove_newhead(
                 SetFL(Touch(h, NextField(b)),
                       IF b = FL(h, sidx) THEN sidx ELSE 0,
                       Rd(h, NextField(b))),
                 IF b = FL(h, sidx) THEN sidx ELSE 0)
        ELSE Wr(Touch(Touch(h, PrevField(b)), NextField(b)),
                NextField(Rd(h, PrevField(b))), Rd(h, NextField(b))),
        b)

free_list_remove(h, b) ==
    free_list_remove_at(TouchFL(Touch(h, b), find_list_index(SIZE(h, b))), b,
                        find_list_index(SIZE(h, b)))

\* ------------------------------------------------------------- coalesce
\* if (new_size != SIZE(b)) { ... } return local_block;
coalesce_resize(h, b, new_size, local_block) ==
    [h |-> IF new_size # SIZE(h, b)
           THEN SETSIZE(IF ISALLOC(h, b) = 0 THEN free_list_remove(h, b) ELSE h,
                        local_block, new_size)
           ELSE h,
     r |-> local_block]

\* new_size += SIZE(next), after free_list_remove(next)
coalesce_next_merged(h, b, new_size, local_block, next) ==
    coalesce_resize(h, b, Add(new_size, SIZE(h, next)), local_block)

\* if (!NEXTUNCOAL(b))
coalesce_next_test(h, b, new_size, local_block) ==
    IF NEXTUNCOAL(h, b) = 0
    THEN coalesce_next_merged(free_list_remove(h, NEXTRAW(h, b)), b, new_size,
                              local_block, NEXTRAW(h, b))
    ELSE coalesce_resize(h, b, new_size, local_block)

coalesce_next(h, b, new_size, local_block) ==
    coalesce_next_test(Touch(h, NEXTRAW(h, b)), b, new_size, local_block)

\* new_size += SIZE(prev); local_block = prev, after free_list_remove(prev)
coalesce_prev_merged(h, b, new_size, prev) ==
    coalesce_next(h, b, Add(new_size, SIZE(h, prev)), prev)

\* if (!PREVUNCOAL(b))
coalesce_prev(h, b, new_size) ==
    IF PREVUNCOAL(h, b) = 0
    THEN coalesce_prev_merged(free_list_remove(h, PREVRAW(h, b)), b, new_size,
                              PREVRAW(h, b))
    ELSE coalesce_next(h, b, new_size, b)

coalesce(h, b) ==
    coalesce_prev(Touch(Touch(h, b), PREVFTR(b)), b, SIZE(h, b))

\* ---------------------------------------------------------------- split
\* new_block = NEXTRAW(b); SETSIZE(new_block, new_size); free_list_insert
split_rest(h, b, new_size) ==
    free_list_insert(SETSIZE(h, NEXTRAW(h, b), new_size), NEXTRAW(h, b), TRUE)

split(h, b, size) ==
    IF Sub(SIZE(h, b), size) >= MINBLOCK
    THEN split_rest(SETSIZE(Touch(h, b), b, size), b, Sub(SIZE(h, b), size))
    ELSE Touch(h, b)

\* ---------------------------------------------------------- extend_heap
\* epilogue = epilogue + size; BOUNDINIT(epilogue);
extend_heap_epilogue(h, size, new_block) ==
    [h |-> BOUNDINIT([h EXCEPT !.epi = Add(h.epi, size)], Add(h.epi, size)),
     r |-> new_block]

\* new_block = epilogue; MARKALLOC(new_block); SETSIZE(new_block, size);
extend_heap_block(h, size) ==
    extend_heap_epilogue(SETSIZE(MARKALLOC(h, h.epi), h.epi, size), size, h.epi)

\* if (sbrk(size) == (void *) -1)
extend_heap_got(s, size) ==
    IF s.r = -1 THEN [h |-> [s.h EXCEPT !.errno = ENOMEM], r |-> NULL]
    ELSE extend_heap_block(s.h, size)

extend_heap(h, size) == extend_heap_got(sbrk(h, size), size)

\* --------------------------------------------------------------- search
\* the walk of find_in_list, at most fuel nodes
RECURSIVE walk_list(_, _, _, _)
walk_list(h, curr, size, fuel) ==
    IF curr = NULL THEN [h |-> h, r |-> NULL]
    ELSE IF h.ub THEN [h |-> h, r |-> NULL]
    ELSE IF fuel = 0 THEN [h |-> [h EXCEPT !.hang = TRUE], r |-> NULL]
    ELSE IF SIZE(h, curr) >= size THEN [h |-> Touch(h, curr), r |-> curr]
    ELSE walk_list(Touch(Touch(h, curr), NextField(curr)), Rd(h, NextField(curr)),
                   size, fuel - 1)

find_in_list(h, list, size) ==
    IF size <= MAXSMALL THEN [h |-> h, r |-> list]
    ELSE walk_list(h, list, size, MemWords)

\* the for loop of find_block over the main lists.  The lists are only read,
\* so the loop ends at the first list at which find_in_list finds a block (or
\* leaves defined behaviour).
scan_lists_at(h, list_index, size) ==
    find_in_list(TouchFL(h, list_index), FL(h, list_index), size)

\* An empty list ends nothing (find_in_list returns NULL for it without
\* reading memory), so only the non-empty lists and the indices outside the
\* table are looked at.
scan_lists_ends(h, list_index, size) ==
    {i \in {j \in list_index..(LISTCOUNT - 1) : j < 0 \/ j \in DOMAIN h.fl} :
        \/ scan_lists_at(h, i, size).r # NULL
        \/ scan_lists_at(h, i, size).h.ub
        \/ scan_lists_at(h, i, size).h.hang}

scan_lists_first(h, ends, size) ==
    IF ends = {} THEN [h |-> h, r |-> NULL]
    ELSE scan_lists_at(h, CHOOSE i \in ends : \A j \in ends : i <= j, size)

scan_lists(h, list_index, size) ==
    IF h.ub \/ h.hang THEN [h |-> h, r |-> NULL]
    ELSE scan_lists_first(h, scan_lists_ends(h, list_index, size), size)

\* the while loop of find_block over the unsorted list, at most fuel rounds
RECURSIVE sweep_unsorted(_, _, _)
\* if (SIZE(found_block) >= size) return found_block; else to the main lists
sweep_unsorted_fit(h, found_block, size, fuel) ==
    IF SIZE(h, found_block) >= size THEN [h |-> h, r |-> found_block]
    ELSE sweep_unsorted(free_list_insert(h, found_block, FALSE), size, fuel - 1)

\* found_block = coalesce(found_block); if (!ISALLOC(...)) free_list_remove
sweep_unsorted_take(c, size, fuel) ==
    sweep_unsorted_fit(IF ISALLOC(c.h, c.r) = 0
                       THEN free_list_remove(c.h, c.r)
                       ELSE Touch(c.h, c.r),
                       c.r, size, fuel)

sweep_unsorted(h, size, fuel) ==
    IF FL(h, 0) = NULL THEN [h |-> h, r |-> NULL]
    ELSE IF h.ub THEN [h |-> h, r |-> NULL]
    ELSE IF fuel = 0 THEN [h |-> [h EXCEPT !.hang = TRUE], r |-> NULL]
    ELSE sweep_unsorted_take(coalesce(h, FL(h, 0)), size, fuel)

\* after the unsorted list: the main lists
find_block_main(s, size) ==
    IF s.r # NULL \/ s.h.ub \/ s.h.hang THEN s
    ELSE scan_lists(s.h, find_list_index(size), size)

find_block(h, size) ==
    find_block_main(sweep_unsorted(h, size, 2 * MemWords), size)

\* --------------------------------------------------------------- malloc
\* if (!ISALLOC(found_block)) free_list_remove; split; return BLOCKTOUSER
malloc_take(g, size) ==
    IF g.r = NULL THEN g
    ELSE [h |-> split(IF ISALLOC(g.h, g.r) = 0
                      THEN free_list_remove(g.h, g.r)
                      ELSE Touch(g.h, g.r),
                      g.r, size),
          r |-> BLOCKTOUSER(g.r)]

\* the last block was free and the heap was extended by what it lacks
malloc_extend_last(e, last_in_heap, size) ==
    IF e.r = NULL THEN e
    ELSE [h |-> SETSIZE(free_list_remove(e.h, last_in_heap), last_in_heap, size),
          r |-> last_in_heap]

\* if (!ISALLOC(last_in_heap)) ... else ...
malloc_extend(h, last_in_heap, size) ==
    IF ISALLOC(h, last_in_heap) = 0
    THEN malloc_extend_last(
             extend_heap(Touch(h, last_in_heap), Sub(size, SIZE(h, last_in_heap))),
             last_in_heap, size)
    ELSE extend_heap(Touch(h, last_in_heap), size)

\* last_in_heap = PREVRAW(epilogue);
malloc_grow(h, size) == malloc_extend(h, PREVRAW(h, h.epi), size)

\* if (found_block == NULL)
malloc_found(f, size) ==
    malloc_take(IF f.r # NULL THEN f
                ELSE malloc_grow(Touch(f.h, PREVFTR(f.h.epi)), size),
                size)

\* malloc after a successful malloc_init and with size != 0
malloc_body(h, usize) ==
    IF usize > ALIGN(BLOCKSIZE(usize))
    THEN [h |-> [h EXCEPT !.errno = ENOMEM], r |-> NULL]
    ELSE malloc_found(find_block(h, ALIGN(BLOCKSIZE(usize))),
                      ALIGN(BLOCKSIZE(usize)))

\* if (malloc_init() < 0) return NULL; if (size == 0) return NULL;
malloc_inited(i, size) ==
    IF i.r < 0 THEN [h |-> i.h, r |-> NULL]
    ELSE IF size = 0 THEN [h |-> i.h, r |-> NULL]
    ELSE malloc_body(i.h, size)

malloc(h, size) == malloc_inited(malloc_init(h), size)

\* ----------------------------------------------------------------- free
\* a free that loses the block: it is coalesced but put on no list
free_insert_lost(c) == c.h

\* free_list_insert(b, true);
free_insert(c) == free_list_insert(c.h, c.r, TRUE)

free(h, ptr) ==
    IF ptr = NULL THEN h
    ELSE free_insert(coalesce(h, USERTOBLOCK(ptr)))

\* ------------------------------------------------------ memmove, memset
\* words are copied whole: every count the code passes is a multiple of WSIZE
memmove(h, dst, src, n) ==
    LET k == n \div WSIZE IN
    IF k = 0 THEN h
    ELSE IF k > MemWords \/ ~Valid(h, src) \/ ~Valid(h, dst)
            \/ ~Valid(h, Add(src, n - WSIZE)) \/ ~Valid(h, Add(dst, n - WSIZE))
    THEN [h EXCEPT !.ub = TRUE]
    ELSE LET to == {Add(dst, j * WSIZE) : j \in 0..(k - 1)}
         IN [h EXCEPT !.mem = Norm([a \in DOMAIN h.mem \cup to |->
                                      IF a \in to THEN Rd(h, Add(src, a - dst))
                                      ELSE h.mem[a]])]

\* a word the range ends in is zeroed whole (its other bytes lie in the same
\* payload, past the bytes asked for)
memset0(h, dst, n) ==
    LET k == (n + WSIZE - 1) \div WSIZE IN
    IF k = 0 THEN h
    ELSE IF k > MemWords \/ ~Valid(h, dst) \/ ~Valid(h, Add(dst, (k - 1) * WSIZE))
    THEN [h EXCEPT !.ub = TRUE]
    ELSE LET to == {Add(dst, j * WSIZE) : j \in 0..(k - 1)}
         IN [h EXCEPT !.mem = [a \in DOMAIN h.mem \ to |-> h.mem[a]]]

\* --------------------------------------------------------------- calloc
\* nmemb * size in size_t arithmetic
RECURSIVE MulMod(_, _)
MulMod(a, b) ==
    IF b = 0 THEN 0
    ELSE Add(2 * MulMod(a, b \div 2), IF b % 2 = 1 THEN a ELSE 0)

\* if (userptr == NULL) return NULL; memset(userptr, 0, total_size);
calloc_zero(m, total_size) ==
    IF m.r = NULL THEN m
    ELSE [h |-> memset0(m.h, m.r, total_size), r |-> m.r]

\* calloc without the overflow test
calloc_unchecked(h, nmemb, size) ==
    calloc_zero(malloc(h, MulMod(nmemb, size)), MulMod(nmemb, size))

calloc(h, nmemb, size) ==
    IF size # 0 /\ nmemb > SIZE_MAX \div size
    THEN [h |-> [h EXCEPT !.errno = ENOMEM], r |-> NULL]
    ELSE calloc_zero(malloc(h, MulMod(nmemb, size)), MulMod(nmemb, size))

\* -------------------------------------------------------------- realloc
\* do { old_size = SIZE(b); b = coalesce(b); } while (SIZE(b) > old_size);
RECURSIVE coalesce_loop(_, _, _)
coalesce_loop_test(c, old_size, fuel) ==
    IF SIZE(c.h, c.r) > old_size THEN coalesce_loop(c.h, c.r, fuel - 1)
    ELSE c

coalesce_loop(h, b, fuel) ==
    IF h.ub THEN [h |-> h, r |-> b]
    ELSE IF fuel = 0 THEN [h |-> [h EXCEPT !.hang = TRUE], r |-> b]
    ELSE coalesce_loop_test(coalesce(h, b), SIZE(h, b), fuel)

\* if (ptr < (void *) new) free(ptr); ... return new;
realloc_release(h, new, ptr) ==
    [h |-> IF ptr < new THEN free(h, ptr) ELSE h, r |-> new]

\* if (new != ptr) memmove(new, ptr, original_size);
realloc_move(h, new, ptr, original_size) ==
    realloc_release(IF new # ptr THEN memmove(h, new, ptr, original_size) ELSE h,
                    new, ptr)

\* new = BLOCKTOUSER(b); if (!ISALLOC(b)) { MARKALLOC(b); HDRTOFTR(b); }
realloc_extended_mark(h, b, ptr, original_size) ==
    realloc_move(IF ISALLOC(h, b) = 0 THEN HDRTOFTR(MARKALLOC(h, b), b) ELSE h,
                 BLOCKTOUSER(b), ptr, original_size)

\* if (extend_heap(size - SIZE(b)) == NULL) return NULL; SETSIZE(b, size);
realloc_extended(e, b, size, ptr, original_size) ==
    IF e.r = NULL THEN [h |-> e.h, r |-> NULL]
    ELSE realloc_extended_mark(SETSIZE(e.h, b, size), b, ptr, original_size)

\* new = malloc(size); if (new == NULL) { errno = ENOMEM; return NULL; }
realloc_malloced(m, ptr, original_size) ==
    IF m.r = NULL THEN [h |-> [m.h EXCEPT !.errno = ENOMEM], r |-> NULL]
    ELSE realloc_move(m.h, m.r, ptr, original_size)

\* if (new != ptr) memmove(new, ptr, new_size); split(b, size); return new;
realloc_inplace_copy(h, b, size, ptr, new_size) ==
    [h |-> split(IF BLOCKTOUSER(b) # ptr
                 THEN memmove(h, BLOCKTOUSER(b), ptr, new_size)
                 ELSE h,
                 b, size),
     r |-> BLOCKTOUSER(b)]

\* the else branch: the block is shrunk, or coalescing made room
realloc_inplace(h, b, size, ptr, original_size) ==
    realloc_inplace_copy(IF ISALLOC(h, b) = 0 THEN free_list_remove(h, b) ELSE h,
                         b, size, ptr,
                         IF original_size < size THEN original_size ELSE size)

\* realloc without the in-place extension of the last block: it moves
realloc_fit_moves(h, b, size, ptr, original_size) ==
    IF SIZE(h, b) < size
    THEN realloc_malloced(malloc(h, size), ptr, original_size)
    ELSE realloc_inplace(h, b, size, ptr, original_size)

\* if (SIZE(b) < size)
realloc_fit(h, b, size, ptr, original_size) ==
    IF SIZE(h, b) < size
    THEN IF NEXTRAW(h, b) = h.epi
         THEN realloc_extended(extend_heap(h, Sub(size, SIZE(h, b))),
                               b, size, ptr, original_size)
         ELSE realloc_malloced(malloc(h, size), ptr, original_size)
    ELSE realloc_inplace(h, b, size, ptr, original_size)

realloc_coalesced(c, size, ptr, original_size) ==
    realloc_fit(c.h, c.r, size, ptr, original_size)

\* b = USERTOBLOCK(ptr); original_size = USERSIZE(b); if (size > SIZE(b)) ...
realloc_block(h, b, size, ptr) ==
    realloc_coalesced(IF size > SIZE(h, b)
                      THEN coalesce_loop(Touch(h, b), b, MemWords)
                      ELSE [h |-> Touch(h, b), r |-> b],
                      size, ptr, USERSIZE(h, b))

\* if (size == 0) free(ptr); and no return: the code goes on with size 0
realloc(h, ptr, usize) ==
    IF ptr = NULL THEN malloc(h, usize)
    ELSE realloc_block(IF usize = 0 THEN free(h, ptr) ELSE h,
                       USERTOBLOCK(ptr), ALIGN(BLOCKSIZE(usize)), ptr)

\* ------------------------------------------------------------ the caller
\* request sizes, and calloc's (nmemb, size)
Sizes == {0, 1, 41, SIZE_MAX}
\* the products of the last three exceed SIZE_MAX: they wrap to SIZE_MAX - 1,
\* to 0 and to a small non-zero size
CallocArgs ==
    {<<2, 4>>, <<SIZE_MAX, 2>>, <<2 ^ (WordBits \div 2), 2 ^ (WordBits - WordBits \div 2)>>,
     <<3, M \div 3 + 1>>}
\* how many sbrk requests the OS grants during one call
Quotas == IF init = 0 THEN 0..3 ELSE 0..1

\* the words of a payload of n bytes
PayloadWords(n) == (n + WSIZE - 1) \div WSIZE
\* what the caller stores in word j of a payload
Tok(j) == 170 + j

\* the caller stores its data in the n bytes it asked for
fill(h, p, n) ==
    LET k == PayloadWords(n)
        to == {Add(p, j * WSIZE) : j \in 0..(k - 1)}
    IN IF k > MemWords \/ ~Valid(h, p) \/ ~Valid(h, Add(p, (k - 1) * WSIZE))
       THEN [h EXCEPT !.ub = TRUE]
       ELSE [h EXCEPT !.mem = [a \in DOMAIN h.mem \cup to |->
                                 IF a \in to THEN Tok((a - p) \div WSIZE)
                                 ELSE h.mem[a]]]

\* op, arguments and result of a call; err is what the call stored in errno
\* (0: it stored nothing); osz and oepi are the size recorded in the header of
\* the block at p and the epilogue's address when the call was made
NoCall ==
    [op |-> "none", p |-> NULL, n |-> 0, ret |-> NULL, err |-> 0, osz |-> 0,
     oepi |-> NULL]

Init ==
    /\ mem = <<>>
    /\ free_lists = <<>>
    /\ prologue = NULL
    /\ epilogue = NULL
    /\ brk \in BrkChoices
    /\ init = 0
    /\ errno = 0
    /\ fault = "none"
    /\ live = EmptyBag
    /\ call = NoCall
    /\ lifo = <<>>
    /\ ncalls = 0

\* the allocator's state at the start of a call during which the OS grants q
\* sbrk requests; errno starts at 0 so that h.errno is what the call stored
Enter(q) == [Cur EXCEPT !.quota = q, !.errno = 0]

\* the state after a call that ended in h with the caller holding newlive
Return(h, newlive, op, p, n, ret) ==
    /\ ncalls' = ncalls + 1
    /\ IF h.ub \/ h.hang
       THEN /\ fault' = IF h.ub THEN "ub" ELSE "hang"
            /\ UNCHANGED <<mem, free_lists, prologue, epilogue, brk, init, errno,
                           live, call, lifo>>
       ELSE /\ mem' = h.mem
            /\ free_lists' = h.fl
            /\ prologue' = h.pro
            /\ epilogue' = h.epi
            /\ brk' = h.brk
            /\ init' = h.init
            /\ errno' = IF h.errno # 0 THEN h.errno ELSE errno
            /\ fault' = "none"
            /\ live' = newlive
            /\ call' = [op |-> op, p |-> p, n |-> n, ret |-> ret, err |-> h.errno,
                         osz |-> IF op \in {"free", "realloc"} /\ p # NULL
                                 THEN SIZE(Cur, USERTOBLOCK(p)) ELSE 0,
                         oepi |-> epilogue]
            /\ lifo' = IF op = "free" /\ p # NULL /\ call.op = "malloc" /\ call.ret = p
                       THEN <<p, call.n>>
                       ELSE IF op = "malloc" /\ Len(lifo) = 2 /\ n = lifo[2]
                       THEN <<lifo[1], lifo[2], ret>>
                       ELSE <<>>

One(p, n) == SetToBag({<<p, n>>})

\* p = malloc(n); on success the caller stores its data
Malloc(n, q) ==
    \E m \in {malloc(Enter(q), n)} :
      \E h \in {IF m.r # NULL THEN fill(m.h, m.r, n) ELSE m.h} :
        Return(h, IF m.r # NULL THEN live (+) One(m.r, n) ELSE live,
               "malloc", NULL, n, m.r)

Free(e) ==
    \E h \in {free(Enter(0), e[1])} :
      Return(h, live (-) One(e[1], e[2]), "free", e[1], 0, NULL)

FreeNull ==
    \E h \in {free(Enter(0), NULL)} :
      Return(h, live, "free", NULL, 0, NULL)

Calloc(a, q) ==
    \E m \in {calloc(Enter(q), a[1], a[2])} :
      Return(m.h,
             IF m.r # NULL THEN live (+) One(m.r, MulMod(a[1], a[2])) ELSE live,
             "calloc", a[1], a[2], m.r)

\* a non-null result is the caller's allocation from then on; a null result
\* leaves it the old one, unless it asked for size 0
Realloc(e, n, q) ==
    \E m \in {realloc(Enter(q), e[1], n)} :
      Return(m.h,
             IF m.r # NULL THEN (live (-) One(e[1], e[2])) (+) One(m.r, n)
             ELSE IF n = 0 THEN live (-) One(e[1], e[2]) ELSE live,
             "realloc", e[1], n, m.r)

ReallocNull(n, q) ==
    \E m \in {realloc(Enter(q), NULL, n)} :
      Return(m.h, IF m.r # NULL THEN live (+) One(m.r, n) ELSE live,
             "realloc", NULL, n, m.r)

\* the caller makes another call only after the last one returned normally
Ready == fault = "none" /\ ncalls < MaxCalls

MallocStep == Ready /\ \E n \in Sizes, q \in Quotas : Malloc(n, q)
FreeStep == Ready /\ \E e \in BagToSet(live) : Free(e)
FreeNullStep == Ready /\ FreeNull
CallocStep == Ready /\ \E a \in CallocArgs, q \in Quotas : Calloc(a, q)
ReallocStep ==
    Ready /\ \E e \in BagToSet(live), n \in Sizes, q \in Quotas : Realloc(e, n, q)
ReallocNullStep == Ready /\ \E q \in Quotas : ReallocNull(1, q)

Next ==
    \/ MallocStep
    \/ FreeStep
    \/ FreeNullStep
    \/ CallocStep
    \/ ReallocStep
    \/ ReallocNullStep

Spec == Init /\ [][Next]_vars

\* ------------------------------------------------ find_list_index alone
\* the block sizes find_list_index is applied to: the multiples of 8 up to the
\* first power-of-two bucket, and the sizes around every power of two
IndexSizes ==
    {8 * j : j \in 1..70}
        \cup UNION {{2 ^ k - 8, 2 ^ k, 2 ^ k + 8} : k \in 9..(WordBits - 1)}
        \cup {AndNot7(SIZE_MAX)}

\* i = find_list_index(s) for a block size s
FindListIndex(s) ==
    /\ call' = [op |-> "find_list_index", p |-> NULL, n |-> s,
                ret |-> find_list_index(s), err |-> 0, osz |-> 0, oepi |-> NULL]
    /\ UNCHANGED <<mem, free_lists, prologue, epilogue, brk, init, errno, fault,
                   live, lifo, ncalls>>

FindListIndexStep == \E s \in IndexSizes : FindListIndex(s)

SpecIndex == Init /\ [][FindListIndexStep]_vars

\* ================================================================ claims
\* the block a payload pointer designates, and what its header records
BlockSize(p) == SIZE(Cur, USERTOBLOCK(p))
\* a call was made and returned (the step is not a fault)
Returned == ncalls' = ncalls + 1 /\ fault' = "none"
Min(a, b) == IF a < b THEN a ELSE b
\* the live allocations, each copy of a pair counted
LiveSeq == BagToSet(live)
Overlap(e, f) == e[1] < f[1] + f[2] /\ f[1] < e[1] + e[2]
Overflows(n) == n > ALIGN(BLOCKSIZE(n))

\* C1: the payload ranges of two distinct live allocations are disjoint, and
\* the pointers of two live allocations are at least MINBLOCK bytes apart
C1_LiveDisjoint ==
    /\ \A e \in LiveSeq : e[2] > 0 => CopiesIn(e, live) = 1
    /\ \A e, f \in LiveSeq : e # f => ~Overlap(e, f)

\* C2: every non-null pointer returned is a multiple of ALIGNMENT = 2 * WSIZE
C2_Aligned ==
    (call.op \in {"malloc", "calloc", "realloc"} /\ call.ret # NULL)
        => call.ret % ALIGNMENT = 0

\* C3: a non-null result of allocate(u) or resize(p, u) designates a block of
\* recorded size >= u + 2W (no wraparound); an overflowing request returns null
\* with out-of-memory
C3_SizeCovers ==
    (call.op \in {"malloc", "realloc"})
        => /\ call.ret # NULL => BlockSize(call.ret) >= call.n + DSIZE
           /\ Overflows(call.n) => call.ret = NULL /\ call.err = ENOMEM

\* C4: after a successful resize(p, n) returning q the first
\* min(old payload size, n) bytes at q are the bytes that were at p
C4_DataKept ==
    [][(Returned /\ call'.op = "realloc" /\ call'.p # NULL /\ call'.ret # NULL)
         => \A j \in 0..(PayloadWords(Min(USERSIZE(Cur, USERTOBLOCK(call'.p)),
                                          call'.n)) - 1) :
               Rd(Cur', call'.ret + j * WSIZE) = Rd(Cur, call'.p + j * WSIZE)]_vars

\* C5: a failed resize(p, u), u > 0, leaves the block at p intact: its header
\* is the same, the block before it and the block after it are neither merged
\* into it nor taken off their free lists (the footer before the block and the
\* header after it are the same), and p is still live
C5_FailedResizeIntact ==
    [][(Returned /\ call'.op = "realloc" /\ call'.p # NULL /\ call'.n # 0
          /\ call'.ret = NULL)
         => /\ Rd(Cur', USERTOBLOCK(call'.p)) = Rd(Cur, USERTOBLOCK(call'.p))
            /\ Rd(Cur', PREVFTR(USERTOBLOCK(call'.p)))
                 = Rd(Cur, PREVFTR(USERTOBLOCK(call'.p)))
            /\ Rd(Cur', NEXTRAW(Cur, USERTOBLOCK(call'.p)))
                 = Rd(Cur, NEXTRAW(Cur, USERTOBLOCK(call'.p)))
            /\ live' = live]_vars

\* C6: an allocate that fails because the OS refuses leaves every free list
\* as it was, and creates, merges or resizes no block
C6_FailedAllocNoChange ==
    [][(Returned /\ call'.op = "malloc" /\ call'.n # 0 /\ ~Overflows(call'.n)
          /\ call'.ret = NULL /\ init = 1)
         => /\ free_lists' = free_lists
            /\ mem' = mem]_vars

\* C7: resize(p, 0) with p non-null frees the block at p and returns null
C7_ResizeZeroFrees ==
    (call.op = "realloc" /\ call.p # NULL /\ call.n = 0)
        => /\ call.ret = NULL
           /\ ISALLOC(Cur, USERTOBLOCK(call.p)) = 0

\* C8: every failing allocate returns null and sets the error indicator to
\* out-of-memory
C8_FailSetsErrno ==
    (call.op = "malloc" /\ call.ret = NULL)
        => call.err = ENOMEM /\ errno = ENOMEM

\* C9: allocate(0) returns null, does not advance the break and changes no
\* free list, in any state (also as the very first call)
C9_ZeroNoEffect ==
    [][(Returned /\ call'.op = "malloc" /\ call'.n = 0)
         => /\ call'.ret = NULL
            /\ brk' = brk
            /\ free_lists' = free_lists
            /\ mem' = mem]_vars

\* C11: a successful growing resize(p, u) of the last block before the
\* epilogue returns p, whatever the state of the block before it
C11_LastGrowsInPlace ==
    (/\ call.op = "realloc" /\ call.p # NULL /\ call.ret # NULL
     /\ ~Overflows(call.n) /\ ALIGN(BLOCKSIZE(call.n)) > call.osz
     /\ Add(USERTOBLOCK(call.p), call.osz) = call.oepi)
        => call.ret = call.p

\* C11 as the code has it: a successful growing resize(p, u) of the last
\* block before the epilogue returns p when the block before p is allocated,
\* and a lower address (the merged block's payload) when it is free
C11_GrowsInPlaceIfPrevAllocated ==
    [][(/\ Returned /\ call'.op = "realloc" /\ call'.p # NULL /\ call'.ret # NULL
        /\ ~Overflows(call'.n) /\ ALIGN(BLOCKSIZE(call'.n)) > call'.osz
        /\ NEXTRAW(Cur, USERTOBLOCK(call'.p)) = epilogue)
         => IF PREVUNCOAL(Cur, USERTOBLOCK(call'.p)) # 0
            THEN call'.ret = call'.p
            ELSE call'.ret < call'.p]_vars
\* the last block was grown in place by extending the heap
C11_Witness ==
    /\ call.op = "realloc" /\ call.p # NULL /\ call.ret = call.p
    /\ ~Overflows(call.n) /\ ALIGN(BLOCKSIZE(call.n)) > call.osz
    /\ Add(USERTOBLOCK(call.p), call.osz) = call.oepi
    /\ epilogue > call.oepi
    /\ BlockSize(call.p) = ALIGN(BLOCKSIZE(call.n))

\* C12: zeroed(nmemb, size) whose true product exceeds SIZE_MAX returns null
\* with out-of-memory and leaves the break, the free lists and the heap as
\* they were: no block is allocated from the wrapped product
C12_ZeroedOverflow ==
    [][(Returned /\ call'.op = "calloc" /\ call'.p * call'.n > SIZE_MAX)
         => /\ call'.ret = NULL /\ call'.err = ENOMEM /\ errno' = ENOMEM
            /\ brk' = brk /\ free_lists' = free_lists /\ mem' = mem
            /\ epilogue' = epilogue /\ init' = init /\ live' = live]_vars
\* a product that wraps to a small non-zero size was refused while a free
\* block was on a list
C12_Witness ==
    /\ call.op = "calloc" /\ call.p * call.n > SIZE_MAX
    /\ MulMod(call.p, call.n) \in 1..MAXSMALL
    /\ call.ret = NULL /\ call.err = ENOMEM
    /\ free_lists # <<>> /\ live # EmptyBag

\* ---- the heap as the block headers and the list links describe it
Range(f) == {f[x] : x \in DOMAIN f}
\* the block headers met from b on by advancing by the recorded size, up to
\* the epilogue; -1 is appended when the walk does not arrive there
RECURSIVE Walk(_, _)
Walk(b, fuel) ==
    IF b = epilogue THEN <<>>
    ELSE IF fuel = 0 \/ b > epilogue \/ b < prologue \/ SIZE(Cur, b) = 0 THEN <<-1>>
    ELSE <<b>> \o Walk(NEXTRAW(Cur, b), fuel - 1)
\* the physical walk from the first block after the prologue
WalkSeq == IF init = 0 THEN <<>> ELSE Walk(prologue + WSIZE, MemWords)
WalkBlocks == Range(WalkSeq) \ {-1}
FreeBlocks == {b \in WalkBlocks : ISALLOC(Cur, b) = 0}
\* the nodes of a list of h from b on by following next; -1 is appended when
\* the links leave the heap or do not end
RECURSIVE ListFrom(_, _, _)
ListFrom(h, b, fuel) ==
    IF b = NULL THEN <<>>
    ELSE IF fuel = 0 \/ ~Valid(h, b) THEN <<-1>>
    ELSE <<b>> \o ListFrom(h, Rd(h, NextField(b)), fuel - 1)
ListSeq(i) == ListFrom(Cur, FL(Cur, i), MemWords)
\* the places <<list, position>> at which block b is linked
PlacesOf(b) ==
    {<<i, k>> \in (DOMAIN free_lists) \X (1..(MemWords + 1)) :
        k <= Len(ListSeq(i)) /\ ListSeq(i)[k] = b}
NodesOf(h) == UNION {Range(ListFrom(h, FL(h, i), MemWords)) : i \in DOMAIN h.fl}
ListNodes == NodesOf(Cur)

\* C13: every free block of the physical walk is on exactly one list, once;
\* every node of every list is a free block of the walk; heads have a null
\* back link and next/prev agree
C13_ListsMatchFreeBlocks ==
    /\ \A b \in FreeBlocks : Cardinality(PlacesOf(b)) = 1
    /\ ListNodes \subseteq FreeBlocks
    /\ \A i \in DOMAIN free_lists :
          /\ Rd(Cur, PrevField(FL(Cur, i))) = NULL
          /\ \A k \in 2..Len(ListSeq(i)) :
                ListSeq(i)[k] # -1
                    => Rd(Cur, PrevField(ListSeq(i)[k])) = ListSeq(i)[k - 1]

\* C14: the physical walk from the first block after the prologue arrives
\* exactly at the epilogue, and every block linked on a free list is one of
\* the blocks the walk visits
C14_WalkTilesHeap ==
    /\ -1 \notin Range(WalkSeq)
    /\ ListNodes \subseteq WalkBlocks

\* a block whose header has neither the allocated nor the quick flag
Coalescable(b) == b # -1 /\ And3(Rd(Cur, b)) = 0

\* C15: no two physically adjacent blocks are both free and coalescable
C15_NoAdjacentFree ==
    \A k \in 1..(Len(WalkSeq) - 1) :
        ~(Coalescable(WalkSeq[k]) /\ Coalescable(WalkSeq[k + 1]))

\* C16: every block between the sentinels has a recorded size that is a
\* multiple of ALIGNMENT and at least MINBLOCK
C16_BlockSizes ==
    \A b \in WalkBlocks :
        SIZE(Cur, b) % ALIGNMENT = 0 /\ SIZE(Cur, b) >= MINBLOCK

\* C17: every block linked on a list i in 1..74 has find_list_index(size) = i
C17_BucketsMatchSize ==
    \A i \in DOMAIN free_lists \ {0} :
        \A b \in Range(ListSeq(i)) \ {-1} : find_list_index(SIZE(Cur, b)) = i

C19_NoLeak ==
    \A b \in WalkBlocks :
        IF ISALLOC(Cur, b) = 0 THEN b \in ListNodes
        ELSE \E e \in BagToSet(live) : e[1] = BLOCKTOUSER(b)

\* the block sizes malloc searches for: those of the caller's requests, and of
\* realloc's request for a block it moves to
SweepSizes ==
    {ALIGN(BLOCKSIZE(n)) : n \in {m \in Sizes : m # 0 /\ ~Overflows(m)}}
        \cup {ALIGN(BLOCKSIZE(ALIGN(BLOCKSIZE(n)))) : n \in Sizes}
\* the sweep of list 0 started in the current state
Sweep(s) == sweep_unsorted(Cur, s, 2 * MemWords)

\* C20: no public operation runs forever: the sweep of list 0 started in any
\* reachable state ends, either with list 0 empty or with a block of size >= s
\* that is on no list, and no call made so far failed to finish a loop
C20_Terminates ==
    /\ fault # "hang"
    /\ \A s \in SweepSizes :
          /\ ~Sweep(s).h.hang
          /\ ~Sweep(s).h.ub
                => \/ Sweep(s).r = NULL /\ FL(Sweep(s).h, 0) = NULL
                   \/ /\ Sweep(s).r # NULL
                      /\ SIZE(Sweep(s).h, Sweep(s).r) >= s
                      /\ Sweep(s).r \notin NodesOf(Sweep(s).h)

====
